---- MODULE Spec2Model ----
(***************************************************************************)
(* rio-mbtiles: export of one georeferenced raster to an MBTiles (SQLite)  *)
(* tile pyramid.  The model covers mbtiles/__init__.py (zoom inference,    *)
(* tile enumeration, the empty-tile cache, reproject_tile) and the mbtiles *)
(* command of mbtiles/scripts/cli.py (validation, database set-up,         *)
(* metadata, the per-tile loop with its per-row commits).                  *)
(*                                                                         *)
(* Longitudes and latitudes are whole degrees.  Image bytes are records    *)
(* naming what the encoder was given; the Resampling Engine (rasterio's    *)
(* reproject) is a deterministic function of its arguments that may also   *)
(* raise.                                                                  *)
(***************************************************************************)
EXTENDS Integers, Sequences, FiniteSets, TLC

\* ------------------------------------------------------------------ bounds

\* --zoom-levels MIN..MAX is drawn from 0..MaxZoomOpt for both ends.
MaxZoomOpt == 2

\* Number of direct reproject_tile calls made by a library user (SpecCalls).
MaxCalls == 3

\* Largest number of enumerated tiles of a run whose tiles are taken in
\* every order (SpecPerm).
MaxPermTiles == 4

\* ------------------------------------------------------- program constants

\* Python's None, for the nodata options and the dataset's nodata.
None == -1

\* --tile-size default.
DefaultTileSize == 256

\* round(log2(360.0 / w)) = k  iff  360/sqrt(2) < 2^k * w < 360*sqrt(2),
\* that is 254.56 < 2^k * w < 509.12: for a whole number of degrees w, k is
\* the least k with 2^k * w >= ZwLo.
ZwLo == 255

\* round(log2(170.1022 / h)) = k  iff  120.28 < 2^k * h < 240.56: the least
\* k with 2^k * h >= ZhLo.
ZhLo == 121

\* mercantile clamps latitudes to +-85.051129: every whole latitude up to
\* LatLimit is inside, every one beyond it is clamped.
LatLimit == 85

TILES_CRS == "EPSG:3857"

\* ------------------------------------------------------------------- state

VARIABLES
    opt,         \* the command's options (fixed for a run)
    src,         \* the source dataset opened from the input file
    before,      \* what the output path held when the command started
    outfile,     \* what the output path holds on disk (committed content)
    txn,         \* rows executed on the connection and not yet committed
    pc,          \* position of the mbtiles command
    err,         \* the exception that ended the run, "" while none
    count,       \* cli.py local: output band count
    base_kwds,   \* cli.py local: the reproject_args shared by every tile
    min_zoom,    \* cli.py local
    max_zoom,    \* cli.py local
    tiles,       \* cli.py local: the sequence get_src_tiles enumerates
    todo,        \* indexes of tiles the loop has not taken yet
    order,       \* indexes of tiles in the order the loop took them
    has_data,    \* cli.py local
    dumped,      \* files written under --image-dump
    EMPTY_TILE,  \* mbtiles/__init__.py module global
    emptyBuilt,  \* number of empty_tile() constructions so far
    warpCalls,   \* number of calls of the Resampling Engine so far
    calls        \* the direct reproject_tile calls made so far (SpecCalls)

vars == <<opt, src, before, outfile, txn, pc, err, count, base_kwds, min_zoom,
          max_zoom, tiles, todo, order, has_data, dumped, EMPTY_TILE,
          emptyBuilt, warpCalls, calls>>

\* ---------------------------------------------------------------- helpers

RECURSIVE Pow2(_)
Pow2(n) == IF n <= 0 THEN 1 ELSE 2 * Pow2(n - 1)

Max(a, b) == IF a >= b THEN a ELSE b
Min(a, b) == IF a <= b THEN a ELSE b

MinOf(S) == CHOOSE m \in S : \A k \in S : m <= k

Range(s) == {s[i] : i \in 1..Len(s)}

\* ------------------------------------------------------ the source dataset

\* A dataset: band count, declared nodata, the sample values each band
\* holds, and its bounds in WGS84 (west, south, east, north).
BoundsA == <<-120, 30, -100, 50>>
BoundsB == <<-120, 10, -20, 60>>

RgbData    == [name |-> "rgb-data", count |-> 3, nodata |-> None,
               bands |-> <<{0, 7}, {0}, {0, 9}>>, bounds |-> BoundsA]
RgbNodata0 == [name |-> "rgb-data-nodata0", count |-> 3, nodata |-> 0,
               bands |-> <<{0}, {0, 7}, {0}>>, bounds |-> BoundsB]
RgbEmpty   == [name |-> "rgb-empty", count |-> 3, nodata |-> 0,
               bands |-> <<{0}, {0}, {0}>>, bounds |-> BoundsB]
RgbaAlpha  == [name |-> "rgba-only-alpha", count |-> 4, nodata |-> None,
               bands |-> <<{0}, {0}, {0}, {255}>>, bounds |-> BoundsA]
GrayFilled == [name |-> "gray-nodata255", count |-> 1, nodata |-> 255,
               bands |-> <<{255}>>, bounds |-> BoundsA]

Sources == {RgbData, RgbNodata0, RgbEmpty, RgbaAlpha}

\* ------------------------------------------------------- mbtiles/__init__.py

\* src_has_data: bands 1..3 (all bands when fewer than 3), any sample that
\* is non-zero (nodata None) or differs from nodata.
src_has_data(s) ==
    LET src_indexes == IF s.count < 3 THEN 1..s.count ELSE {1, 2, 3}
    IN  IF s.nodata = None
        THEN \E i \in src_indexes : \E v \in s.bands[i] : v # 0
        ELSE \E i \in src_indexes : \E v \in s.bands[i] : v # s.nodata

get_src_bounds_in_wgs84(s) == s.bounds

\* int(round(math.log(full / ext, 2.0))) for a whole extent ext >= 1,
\* searched upwards from k.
RECURSIVE Log2Round(_, _, _)
Log2Round(ext, lo, k) ==
    IF Pow2(k) * ext >= lo THEN k ELSE Log2Round(ext, lo, k + 1)

get_src_zooms(west, south, east, north) ==
    LET zw == Log2Round(east - west, ZwLo, 0)
        zh == Log2Round(north - south, ZhLo, 0)
    IN  [min_zoom |-> Min(zw, zh), max_zoom |-> Max(zw, zh)]

\* mercantile's fraction of the world height at a latitude, north = 0,
\* south = 1, as floor(fraction * 2^MercBits); the latitudes are those of
\* the datasets above (none is on a tile edge of any zoom level).
MercBits == 10

MercY(lat) ==
    CASE lat > LatLimit  -> 0
      [] lat < -LatLimit -> Pow2(MercBits)
      [] lat = 60  -> 297
      [] lat = 50  -> 347
      [] lat = 30  -> 422
      [] lat = 10  -> 483
      [] lat = -10 -> 540
      [] lat = -30 -> 601
      [] lat = -60 -> 726

\* mercantile.tile(lng, lat, z).x (upper-left corner of the box)
XTile(lng, z) ==
    IF lng <= -180 THEN 0
    ELSE IF lng >= 180 THEN Pow2(z) - 1
    ELSE ((lng + 180) * Pow2(z)) \div 360

\* mercantile.tile(e - LL_EPSILON, ., z).x (lower-right corner): the last
\* column that starts strictly west of e.
XTileLR(lng, z) ==
    IF lng <= -180 THEN 0
    ELSE IF lng >= 180 THEN Pow2(z) - 1
    ELSE ((lng + 180) * Pow2(z) - 1) \div 360

\* mercantile.tile(., lat, z).y
YTile(lat, z) == Min(MercY(lat) \div Pow2(MercBits - z), Pow2(z) - 1)

\* mercantile.tiles for one zoom level: columns outer, rows inner.
TilesAtZoom(west, south, east, north, z) ==
    LET x0 == XTile(west, z)
        x1 == XTileLR(east, z)
        y0 == YTile(north, z)
        y1 == YTile(south, z)
        nx == Max(x1 - x0 + 1, 0)
        ny == Max(y1 - y0 + 1, 0)
    IN  [k \in 1..(nx * ny) |->
            [x |-> x0 + ((k - 1) \div ny), y |-> y0 + ((k - 1) % ny), z |-> z]]

\* mercantile.tiles(west, south, east, north, range(z, max_zoom + 1))
RECURSIVE MercantileTiles(_, _, _, _, _, _)
MercantileTiles(west, south, east, north, z, zmax) ==
    IF z > zmax THEN <<>>
    ELSE TilesAtZoom(west, south, east, north, z)
         \o MercantileTiles(west, south, east, north, z + 1, zmax)

\* get_src_tiles: clamp to the limits of spherical mercator, then enumerate.
\* A latitude beyond the limit becomes the limit, written LatLimit + 1 here
\* (MercY maps it to the edge of the world).
get_src_tiles(west, south, east, north, zmin, zmax) ==
    LET w == Max(-180, west)
        s == Max(-(LatLimit + 1), south)
        e == Min(180, east)
        n == Min(LatLimit + 1, north)
    IN  MercantileTiles(w, s, e, n, zmin, zmax)

\* Image bytes: what MemoryFile.read() returns after writing `pixels` to a
\* dataset opened with `profile`.  PNG and JPEG carry neither the CRS nor
\* the transform.
Encode(profile, pixels) ==
    [kind |-> "image", driver |-> profile.driver, dtype |-> profile.dtype,
     count |-> profile.count, width |-> profile.width,
     height |-> profile.height, nodata |-> profile.nodata,
     pixels |-> pixels]

\* bytes() / bytearray(): a zero-length blob.
ZeroLengthBytes == [kind |-> "zero-length"]

\* Python None as a tile result.
NoBytes == [kind |-> "None"]

\* empty_tile(profile): a zero-filled band written to every band, nodata 0.
empty_tile(profile) ==
    Encode([profile EXCEPT !.nodata = 0], [fill |-> "zeros"])

\* transform_from_bounds of the tile's mercator bounds and the tile size.
TileTransform(tile, width, height) ==
    [tile |-> tile, width |-> width, height |-> height]

\* reproject_args.copy() without src_nodata/dst_nodata, plus the transform.
DstProfile(tile, reproject_args) ==
    [driver |-> reproject_args.driver, dtype |-> reproject_args.dtype,
     nodata |-> reproject_args.nodata, height |-> reproject_args.height,
     width |-> reproject_args.width, count |-> reproject_args.count,
     crs |-> reproject_args.crs,
     transform |-> TileTransform(tile, reproject_args.width,
                                 reproject_args.height)]

\* d.get(key, default) / d.pop(key, default): the value read.
Get(d, key, default) == IF key \in DOMAIN d THEN d[key] ELSE default

\* Every write reproject_tile (and empty_tile, when it is called) makes to
\* dst_profile, applied to the mapping d: the two pops, the transform, and
\* empty_tile's nodata, width and height.
ProfileWrites(d, tile, calls_empty_tile) ==
    LET popped == [k \in DOMAIN d \ {"src_nodata", "dst_nodata"} |-> d[k]]
        placed == popped @@ ("transform" :>
                      TileTransform(tile, d.width, d.height))
        width  == Get(placed, "width", DefaultTileSize)
        height == Get(placed, "height", DefaultTileSize)
    IN  IF calls_empty_tile
        THEN [k \in DOMAIN placed |->
                 CASE k = "nodata" -> 0
                   [] k = "width"  -> width
                   [] k = "height" -> height
                   [] OTHER        -> placed[k]]
        ELSE placed

\* Mutant: dst_profile = reproject_args, the caller's mapping itself.
ProfileTarget_Alias == "caller"

\* dst_profile = reproject_args.copy(): the mapping the writes go to.
ProfileTarget == "copy"

\* The caller's reproject_args when reproject_tile is left (by return or
\* by an exception of the engine): the two mappings, with the writes made
\* to the one dst_profile names.
CallerArgsAfter(tile, reproject_args, calls_empty_tile) ==
    LET heap == [caller |-> reproject_args, copy |-> reproject_args]
        after == [heap EXCEPT ![ProfileTarget] =
                     ProfileWrites(heap[ProfileTarget], tile, calls_empty_tile)]
    IN  after.caller

\* rasterio.warp.reproject into the destination dataset, then its bytes.
Warp(s, tile, reproject_args, resampling_method) ==
    Encode(DstProfile(tile, reproject_args),
           [fill |-> "warp", source |-> s.name, tile |-> tile,
            src_nodata |-> Get(reproject_args, "src_nodata", None),
            dst_nodata |-> Get(reproject_args, "dst_nodata", None),
            resampling |-> resampling_method])

\* Whether the tile is one of those covering the dataset's bounds.
TileInExtent(s, tile) ==
    LET b == get_src_bounds_in_wgs84(s)
    IN  tile \in Range(get_src_tiles(b[1], b[2], b[3], b[4], tile.z, tile.z))

\* Mutant: the per-tile check of the commented-out code switched on, a tile
\* outside the dataset's extent gives None.
reproject_tile_TileWindow(s, tile, reproject_args, resampling_method, cache) ==
    LET dst_profile == DstProfile(tile, reproject_args)
    IN  IF ~src_has_data(s)
        THEN IF cache = NoBytes
             THEN [ret |-> empty_tile(dst_profile),
                   cache |-> empty_tile(dst_profile),
                   built |-> 1, warped |-> 0,
                   args |-> CallerArgsAfter(tile, reproject_args, TRUE)]
             ELSE [ret |-> cache, cache |-> cache,
                   built |-> 0, warped |-> 0,
                   args |-> CallerArgsAfter(tile, reproject_args, FALSE)]
        ELSE IF ~TileInExtent(s, tile)
        THEN [ret |-> NoBytes, cache |-> cache, built |-> 0, warped |-> 0,
                   args |-> CallerArgsAfter(tile, reproject_args, FALSE)]
        ELSE [ret |-> Warp(s, tile, reproject_args, resampling_method),
              cache |-> cache, built |-> 0, warped |-> 1,
                   args |-> CallerArgsAfter(tile, reproject_args, FALSE)]

\* Mutant: the module global also memoizes the first rendered tile.
reproject_tile_ReusesFirst(s, tile, reproject_args, resampling_method, cache) ==
    IF cache # NoBytes
    THEN [ret |-> cache, cache |-> cache, built |-> 0, warped |-> 0,
                   args |-> CallerArgsAfter(tile, reproject_args, FALSE)]
    ELSE IF ~src_has_data(s)
    THEN [ret |-> empty_tile(DstProfile(tile, reproject_args)),
          cache |-> empty_tile(DstProfile(tile, reproject_args)),
          built |-> 1, warped |-> 0,
                   args |-> CallerArgsAfter(tile, reproject_args, TRUE)]
    ELSE [ret |-> Warp(s, tile, reproject_args, resampling_method),
          cache |-> Warp(s, tile, reproject_args, resampling_method),
          built |-> 0, warped |-> 1,
                   args |-> CallerArgsAfter(tile, reproject_args, FALSE)]

\* reproject_tile when the Resampling Engine does not raise: the bytes it
\* returns, the new value of EMPTY_TILE, and what it called.
reproject_tile(s, tile, reproject_args, resampling_method, cache) ==
    LET dst_profile == DstProfile(tile, reproject_args)
    IN  IF ~src_has_data(s)
        THEN IF cache = NoBytes
             THEN [ret |-> empty_tile(dst_profile),
                   cache |-> empty_tile(dst_profile),
                   built |-> 1, warped |-> 0,
                   args |-> CallerArgsAfter(tile, reproject_args, TRUE)]
             ELSE [ret |-> cache, cache |-> cache,
                   built |-> 0, warped |-> 0,
                   args |-> CallerArgsAfter(tile, reproject_args, FALSE)]
        ELSE [ret |-> Warp(s, tile, reproject_args, resampling_method),
              cache |-> cache, built |-> 0, warped |-> 1,
                   args |-> CallerArgsAfter(tile, reproject_args, FALSE)]

\* ------------------------------------------------- mbtiles/scripts/cli.py

\* Mutant: the test of the dataset's own nodata inverted.
validate_nodata_MetaInverted(dst_nodata, src_nodata, meta_nodata) ==
    dst_nodata # None /\ (src_nodata = None /\ meta_nodata # None)

\* validate_nodata: TRUE when it raises click.BadParameter.
validate_nodata(dst_nodata, src_nodata, meta_nodata) ==
    dst_nodata # None /\ (src_nodata = None /\ meta_nodata = None)

\* "jpg" if img_format.lower() == "jpeg" else "png"
img_ext(img_format) == IF img_format = "JPEG" THEN "jpg" ELSE "png"

\* base_kwds as built by the command: the two overrides, the nodata updates
\* they cause, then the fixed tile profile (which sets nodata to 0).
BaseKwds(o, cnt) ==
    LET k0 == [dst_nodata |-> o.dst_nodata, src_nodata |-> o.src_nodata,
               nodata |-> None]
        k1 == IF o.src_nodata # None
              THEN [k0 EXCEPT !.nodata = o.src_nodata] ELSE k0
        k2 == IF o.dst_nodata # None
              THEN [k1 EXCEPT !.nodata = o.dst_nodata] ELSE k1
    IN  [dst_nodata |-> k2.dst_nodata, src_nodata |-> k2.src_nodata,
         driver |-> o.img_format, dtype |-> "uint8", nodata |-> 0,
         height |-> o.tile_size, width |-> o.tile_size, count |-> cnt,
         crs |-> TILES_CRS]

\* The output path and the SQLite connection.
NoFile == [kind |-> "absent"]
EmptyDb == [kind |-> "sqlite", meta |-> <<>>, tiles |-> <<>>]
EmptyTxn == [meta |-> <<>>, tiles |-> <<>>]

\* A file left at the output path by an earlier export.
OldFile ==
    [kind |-> "sqlite",
     meta |-> <<[name |-> "name", value |-> [text |-> "old", nums |-> <<>>]]>>,
     tiles |-> <<[zoom_level |-> 0, tile_column |-> 0, tile_row |-> 0,
                  tile_data |-> [kind |-> "old"]]>>]

\* conn.commit(): the pending rows reach the file.
Commit(f, t) ==
    [f EXCEPT !.meta = @ \o t.meta, !.tiles = @ \o t.tiles]

\* The six metadata rows, in the order the command inserts them.
MetaRows(o, s) ==
    LET b == get_src_bounds_in_wgs84(s)
    IN  << [name |-> "name", value |-> [text |-> "title", nums |-> <<>>]],
           [name |-> "type", value |-> [text |-> "overlay", nums |-> <<>>]],
           [name |-> "version", value |-> [text |-> "1.1", nums |-> <<>>]],
           [name |-> "description",
            value |-> [text |-> "description", nums |-> <<>>]],
           [name |-> "format",
            value |-> [text |-> img_ext(o.img_format), nums |-> <<>>]],
           [name |-> "bounds", value |-> [text |-> "%f,%f,%f,%f", nums |-> b]] >>

\* Mutant: the flip without its "- 1".
MbtileY_OffByOne(tile) == Pow2(tile.z) - tile.y

\* int(math.pow(2, tile.z)) - tile.y - 1 (the power is exact in a double
\* for every zoom level a tile can have).
MbtileY(tile) == Pow2(tile.z) - tile.y - 1

TileRow(tile, data) ==
    [zoom_level |-> tile.z, tile_column |-> tile.x,
     tile_row |-> MbtileY(tile), tile_data |-> data]

\* "%d-%d-%d.%s" % (tile.x, mbtile_y, tile.z, img_ext)
ImgName(tile, ext) ==
    [x |-> tile.x, mbtile_y |-> MbtileY(tile), z |-> tile.z, ext |-> ext]

\* --zoom-levels: absent, or MIN..MAX with both ends as typed.
NoZoomLevels == <<>>
ZoomOptions ==
    {NoZoomLevels} \cup {<<a, b>> : a \in 0..MaxZoomOpt, b \in 0..MaxZoomOpt}

Options ==
    [rgba : BOOLEAN, img_format : {"JPEG", "PNG"},
     src_nodata : {None, 0}, dst_nodata : {None, 0},
     zoom_levels : ZoomOptions, image_dump : BOOLEAN, overwrite : BOOLEAN,
     tile_size : {DefaultTileSize}, resampling : {"nearest"}]

Unset == [kind |-> "unset"]

locals == <<count, base_kwds, min_zoom, max_zoom, tiles, todo, order, has_data>>
cache  == <<EMPTY_TILE, emptyBuilt, warpCalls>>
inputs == <<opt, src, before>>

Init ==
    /\ opt \in Options
    /\ src \in Sources
    /\ before \in {NoFile, OldFile}
    /\ outfile = before
    /\ txn = EmptyTxn
    /\ pc = "resolve"
    /\ err = ""
    /\ count = 0
    /\ base_kwds = Unset
    /\ min_zoom = None
    /\ max_zoom = None
    /\ tiles = <<>>
    /\ todo = {}
    /\ order = <<>>
    /\ has_data = FALSE
    /\ dumped = {}
    /\ EMPTY_TILE = NoBytes
    /\ emptyBuilt = 0
    /\ warpCalls = 0
    /\ calls = <<>>

\* An exception leaves the command: rows not yet committed are lost.
Raise(kind) ==
    /\ pc' = "failed"
    /\ err' = kind
    /\ txn' = EmptyTxn

\* resolve_inout(files, output, overwrite): refuses an existing output
\* unless --overwrite is given.
ResolveInout ==
    /\ pc = "resolve"
    /\ IF outfile # NoFile /\ ~opt.overwrite
       THEN Raise("FileOverwriteError")
       ELSE pc' = "params" /\ UNCHANGED <<err, txn>>
    /\ UNCHANGED <<inputs, outfile, locals, dumped, cache, calls>>

\* if rgba: ... raise BadParameter / count = 4 / count = 3
CheckRgba ==
    /\ pc = "params"
    /\ IF opt.rgba
       THEN IF opt.img_format = "JPEG"
            THEN Raise("BadParameter: RGBA with JPEG") /\ UNCHANGED count
            ELSE count' = 4 /\ pc' = "validate" /\ UNCHANGED <<err, txn>>
       ELSE count' = 3 /\ pc' = "validate" /\ UNCHANGED <<err, txn>>
    /\ UNCHANGED <<inputs, outfile, base_kwds, min_zoom, max_zoom, tiles,
                   todo, order, has_data, dumped, cache, calls>>

\* validate_nodata(dst_nodata, src_nodata, src.profile.get("nodata"))
ValidateNodata ==
    /\ pc = "validate"
    /\ IF validate_nodata(opt.dst_nodata, opt.src_nodata, src.nodata)
       THEN Raise("BadParameter: --src-nodata must be provided")
       ELSE pc' = "kwds" /\ UNCHANGED <<err, txn>>
    /\ UNCHANGED <<inputs, outfile, locals, dumped, cache, calls>>

BuildBaseKwds ==
    /\ pc = "kwds"
    /\ base_kwds' = BaseKwds(opt, count)
    /\ pc' = "zooms"
    /\ UNCHANGED <<inputs, outfile, txn, err, count, min_zoom, max_zoom,
                   tiles, todo, order, has_data, dumped, cache, calls>>

\* Resolve the minimum and maximum zoom levels for export:
\* map(int, zoom_levels.split("..")) or get_src_zooms.
ResolvedZooms(o, s) ==
    LET b == get_src_bounds_in_wgs84(s)
    IN  IF o.zoom_levels # NoZoomLevels
        THEN [min_zoom |-> o.zoom_levels[1], max_zoom |-> o.zoom_levels[2]]
        ELSE get_src_zooms(b[1], b[2], b[3], b[4])

ResolveZooms ==
    /\ pc = "zooms"
    /\ min_zoom' = ResolvedZooms(opt, src).min_zoom
    /\ max_zoom' = ResolvedZooms(opt, src).max_zoom
    /\ pc' = "initdb"
    /\ UNCHANGED <<inputs, outfile, txn, err, count, base_kwds, tiles, todo,
                   order, has_data, dumped, cache, calls>>

\* Mutant: no unlink; the connection opens whatever the path holds and the
\* tables are created only when missing.
InitDb_KeepsFile ==
    /\ pc = "initdb"
    /\ outfile' = IF outfile = NoFile THEN EmptyDb ELSE outfile
    /\ txn' = EmptyTxn
    /\ pc' = "meta"
    /\ UNCHANGED <<inputs, err, locals, dumped, cache, calls>>

\* Initialize the sqlite db: unlink an existing file, connect, create the
\* two tables, commit.
InitDb ==
    /\ pc = "initdb"
    /\ outfile' = EmptyDb
    /\ txn' = EmptyTxn
    /\ pc' = "meta"
    /\ UNCHANGED <<inputs, err, locals, dumped, cache, calls>>

\* cur.execute(insert_meta, ...), one row at a time.
InsertMeta ==
    /\ pc = "meta"
    /\ Len(txn.meta) < Len(MetaRows(opt, src))
    /\ txn' = [txn EXCEPT !.meta = Append(@, MetaRows(opt, src)[Len(@) + 1])]
    /\ UNCHANGED <<inputs, outfile, pc, err, locals, dumped, cache, calls>>

\* Mutant: the commit after the metadata rows left out.
CommitMeta_Skipped ==
    /\ pc = "meta"
    /\ Len(txn.meta) = Len(MetaRows(opt, src))
    /\ pc' = "tiles"
    /\ UNCHANGED <<inputs, outfile, txn, err, locals, dumped, cache, calls>>

\* conn.commit() after the metadata rows.
CommitMeta ==
    /\ pc = "meta"
    /\ Len(txn.meta) = Len(MetaRows(opt, src))
    /\ outfile' = Commit(outfile, txn)
    /\ txn' = EmptyTxn
    /\ pc' = "tiles"
    /\ UNCHANGED <<inputs, err, locals, dumped, cache, calls>>

\* tiles = get_src_tiles(...); has_data = src_has_data(src)
StartTiles ==
    /\ pc = "tiles"
    /\ LET b == get_src_bounds_in_wgs84(src)
       IN  tiles' = get_src_tiles(b[1], b[2], b[3], b[4], min_zoom, max_zoom)
    /\ todo' = 1..Len(tiles')
    /\ has_data' = src_has_data(src)
    /\ pc' = "loop"
    /\ UNCHANGED <<inputs, outfile, txn, err, count, base_kwds, min_zoom,
                   max_zoom, order, dumped, cache, calls>>

\* Mutant: the loop body without its has_data short cut, every tile goes
\* through reproject_tile.
TileStep_NoShortCut(i) ==
    /\ pc = "loop"
    /\ i \in todo
    /\ LET tile == tiles[i]
           r == reproject_tile(src, tile, base_kwds, opt.resampling, EMPTY_TILE)
       IN  /\ EMPTY_TILE' = r.cache
           /\ emptyBuilt' = emptyBuilt + r.built
           /\ warpCalls' = warpCalls + r.warped
           /\ base_kwds' = r.args
           /\ dumped' =
                 IF opt.image_dump
                 THEN dumped \cup
                      {[name |-> ImgName(tile, img_ext(opt.img_format)),
                        data |-> r.ret]}
                 ELSE dumped
           /\ txn' = [txn EXCEPT !.tiles = Append(@, TileRow(tile, r.ret))]
    /\ todo' = todo \ {i}
    /\ order' = Append(order, i)
    /\ pc' = "commit"
    /\ UNCHANGED <<inputs, outfile, err, count, min_zoom, max_zoom,
                   tiles, has_data, calls>>

\* One pass of the loop body for tiles[i], up to its cur.execute.
TileStep(i) ==
    /\ pc = "loop"
    /\ i \in todo
    /\ LET tile == tiles[i]
           r == reproject_tile(src, tile, base_kwds, opt.resampling, EMPTY_TILE)
       IN  IF ~has_data
           THEN /\ txn' = [txn EXCEPT !.tiles =
                              Append(@, TileRow(tile, ZeroLengthBytes))]
                /\ UNCHANGED <<dumped, cache, base_kwds>>
           ELSE /\ EMPTY_TILE' = r.cache
                /\ base_kwds' = r.args
                /\ emptyBuilt' = emptyBuilt + r.built
                /\ warpCalls' = warpCalls + r.warped
                /\ IF r.ret = NoBytes
                   THEN /\ txn' = [txn EXCEPT !.tiles =
                                      Append(@, TileRow(tile, ZeroLengthBytes))]
                        /\ UNCHANGED dumped
                   ELSE /\ dumped' =
                             IF opt.image_dump
                             THEN dumped \cup
                                  {[name |-> ImgName(tile, img_ext(opt.img_format)),
                                    data |-> r.ret]}
                             ELSE dumped
                        /\ txn' = [txn EXCEPT !.tiles =
                                      Append(@, TileRow(tile, r.ret))]
    /\ todo' = todo \ {i}
    /\ order' = Append(order, i)
    /\ pc' = "commit"
    /\ UNCHANGED <<inputs, outfile, err, count, min_zoom, max_zoom,
                   tiles, has_data, calls>>

\* The loop as written: tiles are taken in the order of the enumeration.
ProcessNextTile ==
    /\ todo # {}
    /\ TileStep(MinOf(todo))

\* The same loop body with the tiles arriving in any order.
ProcessAnyTile == \E i \in todo : TileStep(i)

\* reproject (or the encoder) raises inside reproject_tile: the exception
\* leaves the command.
ReprojectRaises ==
    /\ pc = "loop"
    /\ todo # {}
    /\ has_data
    /\ Raise("ResamplingFailure")
    /\ warpCalls' = warpCalls + 1
    /\ base_kwds' = CallerArgsAfter(tiles[MinOf(todo)], base_kwds, FALSE)
    /\ UNCHANGED <<inputs, outfile, count, min_zoom, max_zoom, tiles, todo,
                   order, has_data, dumped, EMPTY_TILE, emptyBuilt, calls>>

\* conn.commit() that ends each pass of the loop.
TileCommit ==
    /\ pc = "commit"
    /\ outfile' = Commit(outfile, txn)
    /\ txn' = EmptyTxn
    /\ pc' = "loop"
    /\ UNCHANGED <<inputs, err, locals, dumped, cache, calls>>

\* conn.close() after the last tile.
Close ==
    /\ pc = "loop"
    /\ todo = {}
    /\ pc' = "done"
    /\ UNCHANGED <<inputs, outfile, txn, err, locals, dumped, cache, calls>>

Next ==
    \/ ResolveInout
    \/ CheckRgba
    \/ ValidateNodata
    \/ BuildBaseKwds
    \/ ResolveZooms
    \/ InitDb
    \/ InsertMeta
    \/ CommitMeta
    \/ StartTiles
    \/ ProcessNextTile
    \/ ReprojectRaises
    \/ TileCommit
    \/ Close

Spec == Init /\ [][Next]_vars

\* ---------------------------------------------- any order of the tiles

\* The export with the enumerated tiles reaching the loop body in an
\* arbitrary order (what a pool of workers does to the sequence), for runs
\* of at most MaxPermTiles tiles.
InitPerm ==
    /\ Init
    /\ LET b == get_src_bounds_in_wgs84(src)
           z == ResolvedZooms(opt, src)
       IN  Len(get_src_tiles(b[1], b[2], b[3], b[4], z.min_zoom, z.max_zoom))
               <= MaxPermTiles

NextPerm ==
    \/ ResolveInout
    \/ CheckRgba
    \/ ValidateNodata
    \/ BuildBaseKwds
    \/ ResolveZooms
    \/ InitDb
    \/ InsertMeta
    \/ CommitMeta
    \/ StartTiles
    \/ ProcessAnyTile
    \/ ReprojectRaises
    \/ TileCommit
    \/ Close

SpecPerm == InitPerm /\ [][NextPerm]_vars

\* ------------------------------------- direct calls of reproject_tile

\* The profile of tests/test_mod.py and variations of it; src_nodata and
\* dst_nodata are absent from it (pop(..., None) gives None).
TestProfile ==
    [dst_nodata |-> None, src_nodata |-> None, driver |-> "PNG",
     dtype |-> "uint8", nodata |-> 0, height |-> DefaultTileSize,
     width |-> DefaultTileSize, count |-> 3, crs |-> TILES_CRS]

ApiProfiles ==
    {TestProfile,
     [TestProfile EXCEPT !.driver = "JPEG"],
     [TestProfile EXCEPT !.count = 4, !.height = 2 * DefaultTileSize,
                         !.width = 2 * DefaultTileSize]}

ApiSources == {RgbData, RgbEmpty, RgbaAlpha, GrayFilled}

ApiTiles == {[x |-> 0, y |-> 0, z |-> 0], [x |-> 1, y |-> 1, z |-> 1]}

Raised == [kind |-> "raised"]

InitCalls ==
    /\ opt = Unset
    /\ src = Unset
    /\ before = NoFile
    /\ outfile = NoFile
    /\ txn = EmptyTxn
    /\ pc = "api"
    /\ err = ""
    /\ count = 0
    /\ base_kwds = Unset
    /\ min_zoom = None
    /\ max_zoom = None
    /\ tiles = <<>>
    /\ todo = {}
    /\ order = <<>>
    /\ has_data = FALSE
    /\ dumped = {}
    /\ EMPTY_TILE = NoBytes
    /\ emptyBuilt = 0
    /\ warpCalls = 0
    /\ calls = <<>>

\* reproject_tile(src, tile, reproject_args) returning to its caller.
ReprojectTileCall ==
    /\ pc = "api"
    /\ Len(calls) < MaxCalls
    /\ \E s \in ApiSources, t \in ApiTiles, p \in ApiProfiles :
          LET r == reproject_tile(s, t, p, "nearest", EMPTY_TILE)
          IN  /\ EMPTY_TILE' = r.cache
              /\ emptyBuilt' = emptyBuilt + r.built
              /\ warpCalls' = warpCalls + r.warped
              /\ calls' = Append(calls,
                     [src |-> s, tile |-> t, args |-> p, ret |-> r.ret,
                      built |-> r.built, warped |-> r.warped,
                      after |-> r.args])
    /\ UNCHANGED <<inputs, outfile, txn, pc, err, locals, dumped>>

\* reproject_tile leaving by an exception of the Resampling Engine.
ReprojectTileRaises ==
    /\ pc = "api"
    /\ Len(calls) < MaxCalls
    /\ \E s \in ApiSources, t \in ApiTiles, p \in ApiProfiles :
          /\ src_has_data(s)
          /\ warpCalls' = warpCalls + 1
          /\ calls' = Append(calls,
                 [src |-> s, tile |-> t, args |-> p, ret |-> Raised,
                  built |-> 0, warped |-> 1,
                  after |-> CallerArgsAfter(t, p, FALSE)])
    /\ UNCHANGED <<inputs, outfile, txn, pc, err, locals, dumped,
                   EMPTY_TILE, emptyBuilt>>

NextCalls ==
    \/ ReprojectTileCall
    \/ ReprojectTileRaises

SpecCalls == InitCalls /\ [][NextCalls]_vars

\* ------------------------------- the command and the direct calls together

\* Every use of reproject_tile: a process either runs the command or calls
\* the function directly.
InitAll == Init \/ InitCalls

NextAll == Next \/ NextCalls

SpecAll == InitAll /\ [][NextAll]_vars

\* ------------------------------------------------------------------ claims

\* The MBTiles row number of a north-origin row y at zoom z, as the MBTiles
\* 1.1 specification defines it.
Flipped(z, y) == Pow2(z) - y - 1

Coord(row) == <<row.zoom_level, row.tile_column, row.tile_row>>

\* The connection of this run exists (the tables are those of this run).
DbOpen ==
    \/ pc \in {"meta", "tiles", "loop", "commit", "done"}
    \/ pc = "failed" /\ err = "ResamplingFailure"

\* The rows executed so far, committed or not, in insertion order.
Rows == outfile.tiles \o txn.tiles

C2_NoPartialOutputOnFailure ==
    (pc = "failed" /\ err = "ResamplingFailure") =>
        ~(/\ outfile.kind = "sqlite"
          /\ 0 < Len(outfile.tiles)
          /\ Len(outfile.tiles) < Len(tiles))

\* C3: whenever the tiles table of the run holds a row, inserted or
\* committed, the six metadata rows are already inserted and committed.
C3_MetadataBeforeTiles ==
    (DbOpen /\ Len(Rows) > 0) =>
        /\ [i \in 1..Len(outfile.meta) |-> outfile.meta[i].name] =
               <<"name", "type", "version", "description", "format", "bounds">>
        /\ txn.meta = <<>>

\* C3 witness: the first tile row is inserted and not yet committed.
C3_Witness ==
    /\ pc = "commit"
    /\ Len(txn.tiles) = 1
    /\ outfile.tiles = <<>>

\* C4: every row written for a tile (x, y, z) with z >= 0 and 0 <= y < 2^z
\* has tile_row = 2^z - y - 1, which is a valid row of z and flips back to
\* y; the image-dump file names carry the same row.
C4_FlippedRow ==
    DbOpen =>
        /\ Len(Rows) = Len(order)
        /\ \A k \in 1..Len(Rows) :
              LET t == tiles[order[k]]
                  r == Rows[k]
              IN  (t.z >= 0 /\ 0 <= t.y /\ t.y < Pow2(t.z)) =>
                      /\ r.zoom_level = t.z
                      /\ r.tile_column = t.x
                      /\ r.tile_row = Pow2(t.z) - t.y - 1
                      /\ 0 <= r.tile_row /\ r.tile_row < Pow2(t.z)
                      /\ Pow2(t.z) - r.tile_row - 1 = t.y
        /\ \A d \in dumped :
              \E k \in 1..Len(order) :
                  LET t == tiles[order[k]]
                  IN  /\ d.name.x = t.x /\ d.name.z = t.z
                      /\ d.name.mbtile_y = Pow2(t.z) - t.y - 1

\* C4 witness: a committed row whose flipped row differs from y, with its
\* image dumped.
C4_Witness ==
    /\ pc = "done"
    /\ dumped # {}
    /\ \E k \in 1..Len(outfile.tiles) :
          /\ outfile.tiles[k].zoom_level >= 2
          /\ outfile.tiles[k].tile_row # tiles[order[k]].y

\* An invalid configuration: RGBA with JPEG, or a destination nodata with
\* neither --src-nodata nor a nodata of the dataset.
InvalidConfiguration ==
    \/ opt.rgba /\ opt.img_format = "JPEG"
    \/ opt.dst_nodata # None /\ opt.src_nodata = None /\ src.nodata = None

\* C5: with an invalid configuration the export never gets past validation:
\* no tile is processed, the output path keeps what it held, no file is
\* created; and the band count is 4 only for PNG.
C5_InvalidConfigurationFailsEarly ==
    /\ InvalidConfiguration =>
          /\ pc \in {"resolve", "params", "validate", "failed"}
          /\ outfile = before
          /\ txn = EmptyTxn
          /\ order = <<>>
          /\ warpCalls = 0
    /\ count = 4 => opt.img_format = "PNG"

\* C5 witness: the nodata check has rejected the run while a file of an
\* earlier export is at the output path, untouched.
C5_Witness ==
    /\ pc = "failed"
    /\ err = "BadParameter: --src-nodata must be provided"
    /\ before = OldFile
    /\ outfile = OldFile

\* The dataset holds a sample that counts as data: a value other than its
\* nodata (other than 0 when it declares none) in one of its colour bands.
HasSamples(s) ==
    \E i \in 1..Min(s.count, 3) :
        s.bands[i] # {IF s.nodata = None THEN 0 ELSE s.nodata}

\* The bytes are the encoding of an all-zero image of the given profile.
IsEmptyTileOf(bytes, profile) ==
    /\ bytes.kind = "image"
    /\ bytes.pixels.fill = "zeros"
    /\ bytes.driver = profile.driver
    /\ bytes.count = profile.count
    /\ bytes.width = profile.width
    /\ bytes.height = profile.height
    /\ bytes.nodata = 0

\* C6 (as claimed): every reproject_tile call on an empty source returns
\* the empty-tile encoding of the profile of that call, and two such calls
\* return the same bytes only when their profiles are equal.
C6_EmptyTileKeyedByProfile ==
    /\ \A i \in 1..Len(calls) :
          ~HasSamples(calls[i].src) =>
              IsEmptyTileOf(calls[i].ret, calls[i].args)
    /\ \A i, j \in 1..Len(calls) :
          (/\ ~HasSamples(calls[i].src)
           /\ ~HasSamples(calls[j].src)
           /\ calls[i].ret = calls[j].ret) => calls[i].args = calls[j].args

\* C7 (as claimed): a finished export over an empty source has the
\* non-zero-length empty-tile image as the data of every row, and the cache
\* constructed exactly one encoding.
C7_EmptyRunWritesEmptyTileImage ==
    (pc = "done" /\ ~HasSamples(src)) =>
        /\ \A k \in 1..Len(outfile.tiles) :
              IsEmptyTileOf(outfile.tiles[k].tile_data, BaseKwds(opt, count))
        /\ emptyBuilt = 1

\* C7 (amended): a finished export over an empty source has a zero-length
\* blob as the data of every row, one row per enumerated tile; it never
\* calls reproject_tile, so the cache constructs no encoding and the
\* Resampling Engine is not called.
C7_EmptyRunWritesZeroLength ==
    (pc = "done" /\ ~HasSamples(src)) =>
        /\ Len(outfile.tiles) = Len(tiles)
        /\ \A k \in 1..Len(outfile.tiles) :
              outfile.tiles[k].tile_data = ZeroLengthBytes
        /\ emptyBuilt = 0
        /\ EMPTY_TILE = NoBytes
        /\ warpCalls = 0
        /\ dumped = {}

\* C7 witness: a finished export of several tiles over an empty source.
C7_Witness ==
    /\ pc = "done"
    /\ ~HasSamples(src)
    /\ Len(outfile.tiles) >= 2

\* The rows an export of these inputs must end with, whatever the order:
\* one per enumerated tile, its data the rendering of that tile alone.
ExpectedRows ==
    LET b == get_src_bounds_in_wgs84(src)
        z == ResolvedZooms(opt, src)
        kw == BaseKwds(opt, IF opt.rgba THEN 4 ELSE 3)
    IN  {[zoom_level |-> t.z, tile_column |-> t.x,
          tile_row |-> Flipped(t.z, t.y),
          tile_data |-> IF HasSamples(src)
                        THEN Warp(src, t, kw, opt.resampling)
                        ELSE ZeroLengthBytes] :
            t \in Range(get_src_tiles(b[1], b[2], b[3], b[4],
                                      z.min_zoom, z.max_zoom))}

\* C8: the set of rows a finished export wrote depends on the inputs only,
\* not on the order in which the tiles were processed.
C8_OrderIndependent ==
    pc = "done" =>
        /\ Range(outfile.tiles) = ExpectedRows
        /\ Len(outfile.tiles) = Cardinality(ExpectedRows)

\* C8 witness: a finished export of a source with data whose tiles were
\* not processed in the order of the enumeration.
C8_Witness ==
    /\ pc = "done"
    /\ HasSamples(src)
    /\ Len(order) >= 3
    /\ order[1] > order[2]

\* C9 (as claimed): the zoom range handed to get_src_tiles has
\* min_zoom <= max_zoom, and the enumerated tiles cover exactly the zoom
\* levels min_zoom..max_zoom.
C9_ZoomRangeOrdered ==
    /\ pc \in {"initdb", "meta", "tiles", "loop", "commit", "done"} =>
          min_zoom <= max_zoom
    /\ pc \in {"loop", "commit", "done"} =>
          {tiles[i].z : i \in 1..Len(tiles)} = min_zoom..max_zoom

C11_ReprojectArgsUnchanged ==
    /\ (\/ pc \in {"zooms", "initdb", "meta", "tiles", "loop", "commit", "done"}
        \/ pc = "failed" /\ err = "ResamplingFailure") =>
          /\ DOMAIN base_kwds =
                 {"dst_nodata", "src_nodata", "driver", "dtype", "nodata",
                  "height", "width", "count", "crs"}
          /\ base_kwds.dst_nodata = opt.dst_nodata
          /\ base_kwds.src_nodata = opt.src_nodata
          /\ base_kwds.driver = opt.img_format
          /\ base_kwds.dtype = "uint8"
          /\ base_kwds.nodata = 0
          /\ base_kwds.height = opt.tile_size
          /\ base_kwds.width = opt.tile_size
          /\ base_kwds.count = (IF opt.rgba THEN 4 ELSE 3)
          /\ base_kwds.crs = "EPSG:3857"
          /\ DbOpen => \A k \in 1..Len(Rows) :
                Rows[k].tile_data.kind = "image" =>
                    /\ Rows[k].tile_data.driver = opt.img_format
                    /\ Rows[k].tile_data.width = opt.tile_size
                    /\ Rows[k].tile_data.height = opt.tile_size
                    /\ Rows[k].tile_data.count = (IF opt.rgba THEN 4 ELSE 3)
                    /\ Rows[k].tile_data.pixels.src_nodata = opt.src_nodata
                    /\ Rows[k].tile_data.pixels.dst_nodata = opt.dst_nodata
    /\ \A i \in 1..Len(calls) :
          /\ calls[i].after = calls[i].args
          /\ "transform" \notin DOMAIN calls[i].after
          /\ {"src_nodata", "dst_nodata"} \subseteq DOMAIN calls[i].after

\* C11 witness: a direct caller has been through both paths, the empty
\* tile constructed from a profile other than 256 x 256 and a tile rendered
\* by the engine.
C11_Witness ==
    \E i, j \in 1..Len(calls) :
        /\ calls[i].built = 1
        /\ calls[i].args.width # DefaultTileSize
        /\ calls[j].warped = 1
        /\ calls[j].ret # Raised

====
